---- MODULE Spec2Model ----
(***************************************************************************)
(* Model of sod-log (src/src/lib.rs): four passthrough logging services.   *)
(* Text is modelled as a sequence of one-character strings so that the     *)
(* formatting done by "{}{:?}" and "{}{}" is computed, character by        *)
(* character, rather than assumed.                                         *)
(***************************************************************************)
EXTENDS Integers, Sequences, FiniteSets, Bags, TLC

\* ---------------------------------------------------------------- bounds
NumThreads == 2
MaxCalls == 2

Threads == 1..NumThreads

\* ---------------------------------------------------------------- levels
Levels == {"Error", "Warn", "Info", "Debug", "Trace"}

\* ---------------------------------------------------------------- values
I32(n) == [tag |-> "i32", i |-> n]
Str(s) == [tag |-> "str", s |-> s]
SomeV(v) == [tag |-> "Some", inner |-> v]
NoneV == [tag |-> "None"]

\* the unit value (), the only value of the error type
Unit == <<>>
Ok(v) == [tag |-> "Ok", value |-> v]
Err(e) == [tag |-> "Err", error |-> e]

\* ------------------------------------------------------------- rendering
Digits == <<"0", "1", "2", "3", "4", "5", "6", "7", "8", "9">>

RECURSIVE FmtUnsigned(_)
FmtUnsigned(n) ==
    IF n < 10 THEN <<Digits[n + 1]>>
    ELSE FmtUnsigned(n \div 10) \o <<Digits[(n % 10) + 1]>>

FmtI32(n) == IF n < 0 THEN <<"-">> \o FmtUnsigned(-n) ELSE FmtUnsigned(n)

RECURSIVE EscapeDebug(_)
EscapeDebug(s) ==
    IF s = <<>> THEN <<>>
    ELSE (IF Head(s) \in {"\"", "\\"} THEN <<"\\", Head(s)>> ELSE <<Head(s)>>)
         \o EscapeDebug(Tail(s))

\* "{}" : std::fmt::Display
DisplayRepr(v) ==
    CASE v.tag = "i32" -> FmtI32(v.i)
      [] v.tag = "str" -> v.s

\* "{:?}" : std::fmt::Debug
RECURSIVE DebugRepr(_)
DebugRepr(v) ==
    CASE v.tag = "i32" -> FmtI32(v.i)
      [] v.tag = "str" -> <<"\"">> \o EscapeDebug(v.s) \o <<"\"">>
      [] v.tag = "Some" -> <<"S", "o", "m", "e", "(">> \o DebugRepr(v.inner) \o <<")">>
      [] v.tag = "None" -> <<"N", "o", "n", "e">>

\* log::log!(level, ...) hands one record to the logging facade
Record(level, msg) == [level |-> level, msg |-> msg]

\* ---------------------------------------------------------- constructors
LogDebugService_new(level, prefix) ==
    [kind |-> "LogDebugService", level |-> level, prefix |-> prefix]
LogDebugService_debug(prefix) == LogDebugService_new("Debug", prefix)
LogDebugService_error(prefix) == LogDebugService_new("Error", prefix)
LogDebugService_info(prefix) == LogDebugService_new("Info", prefix)
LogDebugService_trace(prefix) == LogDebugService_new("Trace", prefix)
LogDebugService_warn(prefix) == LogDebugService_new("Warn", prefix)

LogOptionalDebugService_new(level, prefix) ==
    [kind |-> "LogOptionalDebugService", level |-> level, prefix |-> prefix]
LogOptionalDebugService_debug(prefix) == LogOptionalDebugService_new("Debug", prefix)
LogOptionalDebugService_error(prefix) == LogOptionalDebugService_new("Error", prefix)
LogOptionalDebugService_info(prefix) == LogOptionalDebugService_new("Info", prefix)
LogOptionalDebugService_trace(prefix) == LogOptionalDebugService_new("Trace", prefix)
LogOptionalDebugService_warn(prefix) == LogOptionalDebugService_new("Warn", prefix)

LogDisplayService_new(level, prefix) ==
    [kind |-> "LogDisplayService", level |-> level, prefix |-> prefix]
LogDisplayService_debug(prefix) == LogDisplayService_new("Debug", prefix)
LogDisplayService_error(prefix) == LogDisplayService_new("Error", prefix)
LogDisplayService_info(prefix) == LogDisplayService_new("Info", prefix)
LogDisplayService_trace(prefix) == LogDisplayService_new("Trace", prefix)
LogDisplayService_warn(prefix) == LogDisplayService_new("Warn", prefix)

LogOptionalDisplayService_new(level, prefix) ==
    [kind |-> "LogOptionalDisplayService", level |-> level, prefix |-> prefix]
LogOptionalDisplayService_debug(prefix) == LogOptionalDisplayService_new("Debug", prefix)
LogOptionalDisplayService_error(prefix) == LogOptionalDisplayService_new("Error", prefix)
LogOptionalDisplayService_info(prefix) == LogOptionalDisplayService_new("Info", prefix)
LogOptionalDisplayService_trace(prefix) == LogOptionalDisplayService_new("Trace", prefix)
LogOptionalDisplayService_warn_asError(prefix) == LogOptionalDisplayService_new("Error", prefix)
LogOptionalDisplayService_warn(prefix) == LogOptionalDisplayService_new("Warn", prefix)

\* -------------------------------------------------------------- process
\* Each process is given as the records it hands to the facade (log), the
\* value it returns (ret) and the receiver after the call (self; the
\* receiver is borrowed as &self).
\* variants of LogDebugService::process with a seeded fault
LogDebugService_process_twice(self, input) ==
    [self |-> self,
     log |-> <<Record(self.level, self.prefix \o DebugRepr(input)),
               Record(self.level, self.prefix \o DebugRepr(input))>>,
     ret |-> Ok(input)]

LogDebugService_process_keepsMessage(self, input) ==
    [self |-> [self EXCEPT !.prefix = self.prefix \o DebugRepr(input)],
     log |-> <<Record(self.level, self.prefix \o DebugRepr(input))>>,
     ret |-> Ok(input)]

LogDebugService_process_separator(self, input) ==
    [self |-> self,
     log |-> <<Record(self.level, self.prefix \o <<" ">> \o DebugRepr(input))>>,
     ret |-> Ok(input)]

LogDebugService_process(self, input) ==
    [self |-> self,
     log |-> <<Record(self.level, self.prefix \o DebugRepr(input))>>,
     ret |-> Ok(input)]

\* variants of LogOptionalDebugService::process with a seeded fault
LogOptionalDebugService_process_noGuard(self, input) ==
    [self |-> self,
     log |-> <<Record(self.level, self.prefix \o DebugRepr(input))>>,
     ret |-> Ok(input)]

LogOptionalDebugService_process_wrapper(self, input) ==
    [self |-> self,
     log |-> IF input.tag = "Some"
             THEN <<Record(self.level, self.prefix \o DebugRepr(input))>>
             ELSE <<>>,
     ret |-> Ok(input)]

LogOptionalDebugService_process(self, input) ==
    [self |-> self,
     log |-> IF input.tag = "Some"
             THEN <<Record(self.level, self.prefix \o DebugRepr(input.inner))>>
             ELSE <<>>,
     ret |-> Ok(input)]

\* variant of LogDisplayService::process with a seeded fault
LogDisplayService_process_debugFmt(self, input) ==
    [self |-> self,
     log |-> <<Record(self.level, self.prefix \o DebugRepr(input))>>,
     ret |-> Ok(input)]

LogDisplayService_process(self, input) ==
    [self |-> self,
     log |-> <<Record(self.level, self.prefix \o DisplayRepr(input))>>,
     ret |-> Ok(input)]

\* variants of LogOptionalDisplayService::process with a seeded fault
LogOptionalDisplayService_process_errOnNone(self, input) ==
    [self |-> self,
     log |-> IF input.tag = "Some"
             THEN <<Record(self.level, self.prefix \o DisplayRepr(input.inner))>>
             ELSE <<>>,
     ret |-> IF input.tag = "Some" THEN Ok(input) ELSE Err(Unit)]

LogOptionalDisplayService_process_prefixOnly(self, input) ==
    [self |-> self,
     log |-> IF input.tag = "Some" THEN <<Record(self.level, self.prefix)>> ELSE <<>>,
     ret |-> Ok(input)]

LogOptionalDisplayService_process_logsAbsent(self, input) ==
    [self |-> self,
     log |-> IF input.tag = "Some"
             THEN <<Record(self.level, self.prefix \o DisplayRepr(input.inner))>>
             ELSE <<Record(self.level, self.prefix)>>,
     ret |-> Ok(input)]

LogOptionalDisplayService_process(self, input) ==
    [self |-> self,
     log |-> IF input.tag = "Some"
             THEN <<Record(self.level, self.prefix \o DisplayRepr(input.inner))>>
             ELSE <<>>,
     ret |-> Ok(input)]

\* dispatch on the receiver's type
Process(self, input) ==
    CASE self.kind = "LogDebugService" -> LogDebugService_process(self, input)
      [] self.kind = "LogOptionalDebugService" -> LogOptionalDebugService_process(self, input)
      [] self.kind = "LogDisplayService" -> LogDisplayService_process(self, input)
      [] self.kind = "LogOptionalDisplayService" -> LogOptionalDisplayService_process(self, input)

Construct(kind, ctor, level, prefix) ==
    CASE kind = "LogDebugService" ->
           (CASE ctor = "new" -> LogDebugService_new(level, prefix)
              [] ctor = "debug" -> LogDebugService_debug(prefix)
              [] ctor = "error" -> LogDebugService_error(prefix)
              [] ctor = "info" -> LogDebugService_info(prefix)
              [] ctor = "trace" -> LogDebugService_trace(prefix)
              [] ctor = "warn" -> LogDebugService_warn(prefix))
      [] kind = "LogOptionalDebugService" ->
           (CASE ctor = "new" -> LogOptionalDebugService_new(level, prefix)
              [] ctor = "debug" -> LogOptionalDebugService_debug(prefix)
              [] ctor = "error" -> LogOptionalDebugService_error(prefix)
              [] ctor = "info" -> LogOptionalDebugService_info(prefix)
              [] ctor = "trace" -> LogOptionalDebugService_trace(prefix)
              [] ctor = "warn" -> LogOptionalDebugService_warn(prefix))
      [] kind = "LogDisplayService" ->
           (CASE ctor = "new" -> LogDisplayService_new(level, prefix)
              [] ctor = "debug" -> LogDisplayService_debug(prefix)
              [] ctor = "error" -> LogDisplayService_error(prefix)
              [] ctor = "info" -> LogDisplayService_info(prefix)
              [] ctor = "trace" -> LogDisplayService_trace(prefix)
              [] ctor = "warn" -> LogDisplayService_warn(prefix))
      [] kind = "LogOptionalDisplayService" ->
           (CASE ctor = "new" -> LogOptionalDisplayService_new(level, prefix)
              [] ctor = "debug" -> LogOptionalDisplayService_debug(prefix)
              [] ctor = "error" -> LogOptionalDisplayService_error(prefix)
              [] ctor = "info" -> LogOptionalDisplayService_info(prefix)
              [] ctor = "trace" -> LogOptionalDisplayService_trace(prefix)
              [] ctor = "warn" -> LogOptionalDisplayService_warn(prefix))

\* ------------------------------------------------------- input universes
Kinds == {"LogDebugService", "LogOptionalDebugService",
          "LogDisplayService", "LogOptionalDisplayService"}
OptionalKinds == {"LogOptionalDebugService", "LogOptionalDisplayService"}
DebugKinds == {"LogDebugService", "LogOptionalDebugService"}
NamedCtors == {"debug", "error", "info", "trace", "warn"}

EmptyPrefix == <<>>
SawPrefix == <<"s", "a", "w", ":", " ">>
MyEventPrefix == <<"m", "y", " ", "e", "v", "e", "n", "t", ":", " ">>
Prefixes == {EmptyPrefix, SawPrefix, MyEventPrefix}

HelloWorld == <<"h", "e", "l", "l", "o", " ", "w", "o", "r", "l", "d", "!">>
Quoted == <<"a", "\"", "\\">>

\* values of types that implement Display (T: Display)
DisplayValues == {I32(7), I32(42), Str(HelloWorld)}
\* values of types that implement Debug (T: Debug); Option<i32> is Debug only
DebugValues == {I32(7), I32(42), Str(Quoted), SomeV(I32(-130)), NoneV}

InputsFor(kind) ==
    CASE kind = "LogDebugService" -> DebugValues
      [] kind = "LogDisplayService" -> DisplayValues
      [] kind = "LogOptionalDebugService" ->
           {NoneV} \cup {SomeV(v) : v \in DebugValues \ {I32(7), SomeV(I32(-130))}}
      [] kind = "LogOptionalDisplayService" -> {NoneV} \cup {SomeV(v) : v \in DisplayValues}
      [] OTHER -> {}

\* ----------------------------------------------------------------- state
VARIABLES svc, built, sink, pc, arg, result, hist

vars == <<svc, built, sink, pc, arg, result, hist>>

NoService == [kind |-> "none"]
NoValue == [tag |-> "unset"]

Init ==
    /\ svc = NoService
    /\ built = [ctor |-> "none"]
    /\ sink = <<>>
    /\ pc = [t \in Threads |-> "idle"]
    /\ arg = [t \in Threads |-> NoValue]
    /\ result = [t \in Threads |-> NoValue]
    /\ hist = <<>>

\* the caller builds the adapter with new(level, prefix)
BuildNew(kind, level, prefix) ==
    /\ svc = NoService
    /\ svc' = Construct(kind, "new", level, prefix)
    /\ built' = [ctor |-> "new", kind |-> kind, level |-> level, prefix |-> prefix]
    /\ UNCHANGED <<sink, pc, arg, result, hist>>

\* the caller builds the adapter with debug/error/info/trace/warn(prefix)
BuildNamed(kind, ctor, prefix) ==
    /\ svc = NoService
    /\ svc' = Construct(kind, ctor, "Error", prefix)
    /\ built' = [ctor |-> ctor, kind |-> kind, prefix |-> prefix]
    /\ UNCHANGED <<sink, pc, arg, result, hist>>

\* thread t enters process(input)
Call(t, input) ==
    /\ svc # NoService
    /\ pc[t] = "idle"
    /\ Len(hist) < MaxCalls
    /\ input \in InputsFor(svc.kind)
    /\ pc' = [pc EXCEPT ![t] = "log"]
    /\ arg' = [arg EXCEPT ![t] = input]
    /\ result' = [result EXCEPT ![t] = NoValue]
    /\ hist' = Append(hist, input)
    /\ UNCHANGED <<svc, built, sink>>

\* thread t executes the log::log! statement of process
Log(t) ==
    /\ pc[t] = "log"
    /\ LET r == Process(svc, arg[t]) IN
         /\ sink' = sink \o r.log
         /\ svc' = r.self
    /\ pc' = [pc EXCEPT ![t] = "ret"]
    /\ UNCHANGED <<built, arg, result, hist>>

\* thread t returns from process
Return(t) ==
    /\ pc[t] = "ret"
    /\ result' = [result EXCEPT ![t] = Process(svc, arg[t]).ret]
    /\ arg' = [arg EXCEPT ![t] = NoValue]
    /\ pc' = [pc EXCEPT ![t] = "idle"]
    /\ UNCHANGED <<svc, built, sink, hist>>

Next ==
    \/ \E kind \in Kinds, level \in Levels, prefix \in Prefixes :
          BuildNew(kind, level, prefix)
    \/ \E kind \in Kinds, ctor \in NamedCtors, prefix \in Prefixes :
          BuildNamed(kind, ctor, prefix)
    \/ \E t \in Threads : \E input \in InputsFor(svc.kind) : Call(t, input)
    \/ \E t \in Threads : Log(t)
    \/ \E t \in Threads : Return(t)

Spec == Init /\ [][Next]_vars

\* one thread calling process sequentially
NextSeq ==
    \/ \E kind \in Kinds, level \in Levels, prefix \in Prefixes :
          BuildNew(kind, level, prefix)
    \/ \E kind \in Kinds, ctor \in NamedCtors, prefix \in Prefixes :
          BuildNamed(kind, ctor, prefix)
    \/ \E input \in InputsFor(svc.kind) : Call(1, input)
    \/ Log(1)
    \/ Return(1)

SpecSeq == Init /\ [][NextSeq]_vars

\* ------------------------------------------------ vocabulary of the claims
NonOptionalKinds == Kinds \ OptionalKinds
DisplayKinds == Kinds \ DebugKinds

\* the input of an optional variant is absent when it is None
Present(kind, x) == kind \in NonOptionalKinds \/ x.tag = "Some"
\* the value that is rendered: the inner value for the optional variants
Rendered(kind, x) == IF kind \in OptionalKinds THEN x.inner ELSE x
Rendering(kind, v) == IF kind \in DebugKinds THEN DebugRepr(v) ELSE DisplayRepr(v)
ExpectedRecord(x) ==
    Record(svc.level, svc.prefix \o Rendering(svc.kind, Rendered(svc.kind, x)))

LogStep(t) == pc[t] = "log" /\ pc'[t] = "ret"
ReturnStep(t) == pc[t] = "ret" /\ pc'[t] = "idle"
CallStep(t) == pc[t] = "idle" /\ pc'[t] = "log"

LevelOfCtor(ctor) ==
    CASE ctor = "debug" -> "Debug"
      [] ctor = "error" -> "Error"
      [] ctor = "info" -> "Info"
      [] ctor = "trace" -> "Trace"
      [] ctor = "warn" -> "Warn"

Count(s, r) == Cardinality({i \in DOMAIN s : s[i] = r})

RECURSIVE ExpectedSink(_)
ExpectedSink(h) ==
    IF h = <<>> THEN <<>>
    ELSE (IF Present(svc.kind, Head(h)) THEN <<ExpectedRecord(Head(h))>> ELSE <<>>)
         \o ExpectedSink(Tail(h))

\* ------------------------------------------------------------------ C1
\* C1: for LogDebugService and LogDisplayService, every process(x) hands
\* exactly one record to the sink, at the configured level, whose message is
\* the prefix followed by the variant's rendering of x, and returns Ok(x).
C1_NonOptionalProcess ==
    [][\A t \in Threads :
         svc.kind \in NonOptionalKinds =>
           /\ CallStep(t) => sink' = sink
           /\ LogStep(t) =>
                sink' = Append(sink, Record(svc.level,
                                            svc.prefix \o Rendering(svc.kind, arg[t])))
           /\ ReturnStep(t) => (result'[t] = Ok(arg[t]) /\ sink' = sink)]_vars

C1_Witness ==
    \E t \in Threads :
       /\ svc.kind = "LogDebugService"
       /\ svc.prefix = SawPrefix
       /\ pc[t] = "idle"
       /\ result[t] = Ok(Str(Quoted))
       /\ sink = <<Record(svc.level, <<"s", "a", "w", ":", " ",
                                        "\"", "a", "\\", "\"", "\\", "\\", "\"">>)>>

\* ------------------------------------------------------------------ C2
\* C2: for the optional variants, process(None) returns Ok(None) and hands
\* no record to the sink: the sink is left as it was.
C2_AbsentEmitsNothing ==
    [][\A t \in Threads :
         (svc.kind \in OptionalKinds /\ arg[t].tag = "None") =>
           /\ LogStep(t) => sink' = sink
           /\ ReturnStep(t) => (result'[t] = Ok(NoneV) /\ sink' = sink)]_vars

C2_Witness ==
    \E t \in Threads :
       /\ svc = [kind |-> "LogOptionalDebugService", level |-> "Warn", prefix |-> SawPrefix]
       /\ hist = <<NoneV>>
       /\ pc[t] = "idle"
       /\ result[t] = Ok(NoneV)
       /\ sink = <<>>

\* ------------------------------------------------------------------ C3
\* C3: for the optional variants, process(Some(x)) hands exactly one record
\* to the sink, at the configured level, whose message is the prefix followed
\* by the rendering of the inner value x, and returns Ok(Some(x)).
C3_PresentEmitsInner ==
    [][\A t \in Threads :
         (svc.kind \in OptionalKinds /\ arg[t].tag = "Some") =>
           /\ LogStep(t) =>
                sink' = Append(sink, Record(svc.level,
                                  svc.prefix \o Rendering(svc.kind, arg[t].inner)))
           /\ ReturnStep(t) => (result'[t] = Ok(SomeV(arg[t].inner)) /\ sink' = sink)]_vars

C3_Witness ==
    \E t \in Threads :
       /\ svc.kind = "LogOptionalDebugService"
       /\ built = [ctor |-> "warn", kind |-> "LogOptionalDebugService", prefix |-> SawPrefix]
       /\ pc[t] = "idle"
       /\ result[t] = Ok(SomeV(I32(42)))
       /\ sink = <<Record("Warn", <<"s", "a", "w", ":", " ", "4", "2">>)>>

\* ------------------------------------------------------------------ C4
\* C4: an adapter built by debug/info/warn/error/trace(p) stores the level of
\* the same name and the prefix p, equals new(Level::X, p), and emits the
\* same records as new(Level::X, p) for every input.
C4_NamedCtorIsNew ==
    (svc # NoService /\ built.ctor # "new") =>
       /\ svc.level = LevelOfCtor(built.ctor)
       /\ svc.prefix = built.prefix
       /\ svc.kind = built.kind
       /\ svc = Construct(built.kind, "new", LevelOfCtor(built.ctor), built.prefix)
       /\ \A x \in InputsFor(built.kind) :
             Process(svc, x).log =
               Process(Construct(built.kind, "new", LevelOfCtor(built.ctor),
                                 built.prefix), x).log

C4_Witness ==
    /\ built = [ctor |-> "trace", kind |-> "LogOptionalDisplayService",
                prefix |-> MyEventPrefix]
    /\ svc = [kind |-> "LogOptionalDisplayService", level |-> "Trace",
              prefix |-> MyEventPrefix]
    /\ sink = <<Record("Trace", MyEventPrefix \o <<"7">>)>>

\* ------------------------------------------------------------------ C5
\* C5: process never fails: every returned result, for every variant,
\* configuration and input (present or absent), is an Ok and never an Err.
C5_NeverErr ==
    /\ \A t \in Threads : result[t] # NoValue => result[t].tag = "Ok"
    /\ svc # NoService =>
         \A x \in InputsFor(svc.kind) : Process(svc, x).ret.tag = "Ok"

C5_Witness ==
    /\ svc.kind = "LogOptionalDisplayService"
    /\ result[1] = Ok(NoneV)
    /\ result[2] = Ok(SomeV(Str(HelloWorld)))

\* ------------------------------------------------------------------ C6
\* C6: once constructed, the adapter's level and prefix never change and
\* equal the constructor's arguments; a process step changes nothing of the
\* adapter, and with an absent input it changes the sink neither.
C6_ConfigImmutable ==
    [][/\ svc # NoService => svc' = svc
       /\ svc' # NoService =>
            /\ svc'.kind = built'.kind
            /\ svc'.prefix = built'.prefix
            /\ built'.ctor = "new" => svc'.level = built'.level
       /\ \A t \in Threads :
            /\ (LogStep(t) \/ ReturnStep(t)) => UNCHANGED <<svc, built>>
            /\ (LogStep(t) /\ ~Present(svc.kind, arg[t])) => UNCHANGED <<svc, sink>>]_vars

C6_Witness ==
    /\ built = [ctor |-> "new", kind |-> "LogDebugService", level |-> "Info",
                prefix |-> SawPrefix]
    /\ svc = [kind |-> "LogDebugService", level |-> "Info", prefix |-> SawPrefix]
    /\ \A t \in Threads : pc[t] = "idle"
    /\ Len(hist) = 2
    /\ Len(sink) = 2

\* ------------------------------------------------------------------ C7
\* C7: under every interleaving of concurrent calls on one adapter, the sink
\* holds, in some order, exactly one record (configured level, prefix and
\* the call's own rendered value) per call with a present input that has
\* executed its log statement and none for absent inputs, and every call
\* returns Ok of its own input.
C7_Concurrent ==
    /\ [](svc # NoService =>
            LET pending == {t \in Threads : pc[t] = "log" /\ Present(svc.kind, arg[t])}
                all == ExpectedSink(hist)
            IN  /\ \A i \in DOMAIN sink :
                     \E j \in DOMAIN hist :
                        Present(svc.kind, hist[j]) /\ sink[i] = ExpectedRecord(hist[j])
                /\ \A j \in DOMAIN all :
                     Count(sink, all[j]) =
                       Count(all, all[j])
                       - Cardinality({t \in pending : ExpectedRecord(arg[t]) = all[j]}))
    /\ [][\A t \in Threads : ReturnStep(t) => result'[t] = Ok(arg[t])]_vars

\* two calls in flight at once, whose records reach the sink in the order
\* opposite to the order of invocation
C7_Witness ==
    /\ Len(hist) = 2
    /\ Len(sink) = 2
    /\ sink[1] = ExpectedRecord(hist[2])
    /\ sink[2] = ExpectedRecord(hist[1])
    /\ sink[1] # sink[2]
    /\ pc[1] = "ret"
    /\ pc[2] = "ret"

\* ------------------------------------------------------------------ C8
\* C8: the display variants build the message from the Display rendering and
\* the debug variants from the Debug rendering; LogDisplayService::info("my
\* event: ") on "hello world!" emits one Info record "my event: hello world!"
\* (unquoted) and returns Ok("hello world!").
C8_FormatAxis ==
    [][\A t \in Threads :
         /\ (LogStep(t) /\ Present(svc.kind, arg[t])) =>
              /\ Len(sink') = Len(sink) + 1
              /\ svc.kind \in {"LogDisplayService", "LogOptionalDisplayService"} =>
                   sink'[Len(sink')].msg =
                     svc.prefix \o DisplayRepr(Rendered(svc.kind, arg[t]))
              /\ svc.kind \in {"LogDebugService", "LogOptionalDebugService"} =>
                   sink'[Len(sink')].msg =
                     svc.prefix \o DebugRepr(Rendered(svc.kind, arg[t]))
         /\ (/\ built.ctor = "info"
             /\ svc.kind = "LogDisplayService"
             /\ svc.prefix = MyEventPrefix
             /\ arg[t] = Str(HelloWorld)) =>
              /\ LogStep(t) =>
                   sink' = Append(sink, Record("Info",
                      <<"m", "y", " ", "e", "v", "e", "n", "t", ":", " ",
                        "h", "e", "l", "l", "o", " ", "w", "o", "r", "l", "d", "!">>))
              /\ ReturnStep(t) => result'[t] = Ok(Str(HelloWorld))]_vars

C8_Witness ==
    \E t \in Threads :
       /\ built = [ctor |-> "info", kind |-> "LogDisplayService", prefix |-> MyEventPrefix]
       /\ pc[t] = "idle"
       /\ result[t] = Ok(Str(HelloWorld))
       /\ sink = <<Record("Info",
                      <<"m", "y", " ", "e", "v", "e", "n", "t", ":", " ",
                        "h", "e", "l", "l", "o", " ", "w", "o", "r", "l", "d", "!">>)>>

\* ------------------------------------------------------------------ C9
\* C9: with the empty prefix the message is exactly the rendering of the
\* value; new(Level::Error, "") processing 7 emits one Error record "7" and
\* returns Ok(7).
C9_EmptyPrefix ==
    [][\A t \in Threads :
         (svc # NoService /\ svc.prefix = EmptyPrefix) =>
           /\ (LogStep(t) /\ Present(svc.kind, arg[t])) =>
                /\ Len(sink') = Len(sink) + 1
                /\ sink'[Len(sink')].msg =
                     Rendering(svc.kind, Rendered(svc.kind, arg[t]))
           /\ (svc.level = "Error" /\ svc.kind \in NonOptionalKinds /\ arg[t] = I32(7)) =>
                /\ LogStep(t) => sink' = Append(sink, Record("Error", <<"7">>))
                /\ ReturnStep(t) => result'[t] = Ok(I32(7))]_vars

C9_Witness ==
    \E t \in Threads :
       /\ built = [ctor |-> "new", kind |-> "LogDebugService", level |-> "Error",
                   prefix |-> EmptyPrefix]
       /\ pc[t] = "idle"
       /\ result[t] = Ok(I32(7))
       /\ sink = <<Record("Error", <<"7">>)>>

\* ----------------------------------------------------------------- C10
\* C10: with one thread calling sequentially, the record of a call is in the
\* sink before the call returns, the adapter holds nothing but its level and
\* prefix, and the sink is, in invocation order, exactly the records of the
\* calls with a present input.
C10_SequentialOrder ==
    svc # NoService =>
       /\ DOMAIN svc = {"kind", "level", "prefix"}
       /\ pc[1] = "log" => sink = ExpectedSink(SubSeq(hist, 1, Len(hist) - 1))
       /\ pc[1] \in {"ret", "idle"} => sink = ExpectedSink(hist)

C10_Witness ==
    /\ svc.kind = "LogOptionalDisplayService"
    /\ hist = <<NoneV, SomeV(I32(42))>>
    /\ pc[1] = "ret"
    /\ sink = <<Record(svc.level, svc.prefix \o <<"4", "2">>)>>

====
